---- MODULE Spec2Model ----
(***************************************************************************)
(* Backend process supervisor of the Electron main process                 *)
(* (electron/main.js): the module-level state backendStatus,               *)
(* backendProcess and mainWindow, the IPC handlers start-backend,          *)
(* stop-backend and check-backend, the HTTP probes of checkBackendStatus   *)
(* and verifyBackendRunning, and the events of the spawned child           *)
(* processes (stdout data, close, error) and of the 3 s timer.             *)
(***************************************************************************)
EXTENDS Integers, Sequences, FiniteSets, TLC

\* ---------------------------------------------------------------- bounds
\* Number of handler executions (commands, callbacks, events) a behaviour
\* is followed for.
MaxSteps == 5

\* Number of handler executions after which, in the behaviours checked for
\* progress, only the callbacks of the launches already made still run.
FairSteps == 3

\* Number of handler executions the launches are followed for on every
\* platform and with every state of the venv folder.
LaunchSteps == 3

\* ------------------------------------------------------------- constants
Statuses == {"checking", "running", "starting", "stopped", "error"}

\* HTTP status codes the companion service may answer with.
StatusCodes == {200, 404, 500}

\* Exit codes handed to the 'close' handler ("null": ended by a signal).
ExitCodes == {"0", "1", "null"}

\* Results of the spawn() call: a running child, a handle whose 'error'
\* event follows (ENOENT, EACCES), or a synchronous throw.
SpawnOutcomes == {"ok", "enoent", "throw"}

\* A behaviour of MaxSteps handlers calls spawn() at most MaxSteps times.
Children == 1..MaxSteps

\* No handle (backendProcess = null).
null == 0

\* Candidate directories in the order of the possiblePaths array.
possiblePaths == <<"resources", "dev", "downloads", "home", "userData">>

Dirs == {possiblePaths[i] : i \in 1..Len(possiblePaths)}

\* Directories in which the user may have put the backend folder.
Installs == {"resources", "downloads"}

\* Values of process.platform.
Platforms == {"darwin", "linux", "win32"}

\* The venv folder of the installation: absent, a folder without the
\* interpreter, a folder with the interpreter.
VenvStates == {"none", "dir", "full"}

\* Kinds of pending checkBackendStatus request: the status in which it was
\* issued, and whether it is waiting for an answer ("sent") or was destroyed
\* by its timeout handler and still owes its 'error' event ("destroyed").
ReqKinds == Statuses \X {"sent", "destroyed"}

VARIABLES
    backendStatus,   \* let backendStatus
    backendProcess,  \* let backendProcess: null or the child last assigned
    mainWindow,      \* TRUE when mainWindow is a window, FALSE when null
    quit,            \* TRUE once the application has quit
    proc,            \* per launch: state of the child process: "none" (not
                     \* spawned, or closed), "alive", "errpending" (spawn
                     \* failed, 'error' event due), "failed" ('error' event
                     \* delivered, 'close' due)
    killed,          \* per child: "no", or the status in which kill() was
                     \* called on its handle
    timer,           \* per launch: the 3 s timer and its re-probe: "none",
                     \* "pending" (timer set), "sent" (request of
                     \* verifyBackendRunning in flight), "destroyed" (request
                     \* destroyed by its timeout handler, 'error' event due)
    launchDir,       \* per child: the working directory it was spawned in
    checkReqs,       \* pending checkBackendStatus requests, by kind
    fs,              \* candidate directories that contain app.py
    platform,        \* process.platform
    venv,            \* the venv folder of the installation
    spawnCount,      \* number of children spawn() has returned so far
    cmdSinceStop,    \* a start or check command came after the last stop
    launchCredit,    \* checks and start commands issued so far (the check
                     \* of each createWindow() included) minus the calls
                     \* of spawn()
    delivered,       \* the status of the last backend-status event sent to
                     \* the renderer, "none" before the first one
    missed,          \* backendStatus was assigned while no window existed,
                     \* after the last event sent
    steps,           \* number of handlers that have run
    act              \* the handler that ran last, its inputs and its events

vars == <<backendStatus, backendProcess, mainWindow, quit, proc, killed, timer,
          launchDir, checkReqs, platform, venv, fs, spawnCount, cmdSinceStop, launchCredit,
          delivered, missed, steps, act>>

\* ------------------------------------------------------------- messages
NotFoundMsg == "Backend not found. Please ensure the backend folder is installed."
ExitedMsg(code) == "Backend exited with code " \o code
FailedMsg(errMessage) == "Failed to start backend: " \o errMessage
ThrownMsg(errMessage) == "Error starting backend: " \o errMessage
BadStatusMsg == "Backend started but not responding correctly"
UnavailableMsg == "Backend process started but HTTP endpoint not available"
TimeoutMsg == "Backend timeout"

\* ------------------------------------------------------ machine state
\* The part of the state a handler reads and writes, as one record, so that
\* the functions of main.js compose as they do in the code.  sets collects
\* the values the running handler has assigned to backendStatus, events the
\* backend-status events it has sent, exit the exit code a close handler was
\* given, attempts the number of calls of attemptStartBackend it has made.
Cur ==
    [status |-> backendStatus, process |-> backendProcess, proc |-> proc,
     killed |-> killed, timer |-> timer, dir |-> launchDir,
     spawns |-> spawnCount,
     attempts |-> 0, spawned |-> FALSE, cwd |-> "none", exe |-> "none",
     exit |-> "none", sets |-> <<>>, events |-> <<>>]

\* Bug: the event is built before the assignment and carries the status the
\* function found.
updateBackendStatusStaleEvent(s, status, message) ==
    [s EXCEPT !.status = status,
              !.sets = Append(@, status),
              !.events = IF mainWindow
                         THEN Append(@, [status |-> s.status, message |-> message])
                         ELSE @]

\* Bug: a 'starting' status is assigned but not sent.
updateBackendStatusNoStarting(s, status, message) ==
    [s EXCEPT !.status = status,
              !.sets = Append(@, status),
              !.events = IF mainWindow /\ status # "starting"
                         THEN Append(@, [status |-> status, message |-> message])
                         ELSE @]

\* function updateBackendStatus(status, message = '')
updateBackendStatus(s, status, message) ==
    [s EXCEPT !.status = status,
              !.sets = Append(@, status),
              !.events = IF mainWindow
                         THEN Append(@, [status |-> status, message |-> message])
                         ELSE @]

\* The for loop of findBackendPath over possiblePaths, from index i.
RECURSIVE firstWithApp(_, _)
firstWithApp(i, has) ==
    IF i > Len(possiblePaths) THEN "null"
    ELSE IF possiblePaths[i] \in has THEN possiblePaths[i]
    ELSE firstWithApp(i + 1, has)

\* function findBackendPath()
findBackendPath == firstWithApp(1, fs)

\* if (backendStatus === 'starting') return;
AlreadyStarting(s) == s.status = "starting"

\* Bug: the child is launched in the first candidate directory, whether or
\* not it has app.py.
spawnBackendFirstCandidate(s, outcome) ==
    LET c == s.spawns + 1 IN
    IF outcome = "throw"
    THEN updateBackendStatus([s EXCEPT !.spawned = TRUE, !.cwd = possiblePaths[1]],
                             "error", ThrownMsg("spawn EINVAL"))
    ELSE [s EXCEPT !.spawned = TRUE,
                   !.cwd = possiblePaths[1],
                   !.dir[c] = possiblePaths[1],
                   !.spawns = c,
                   !.process = c,
                   !.proc[c] = IF outcome = "ok" THEN "alive" ELSE "errpending",
                   !.timer[c] = "pending"]

\* Bug: the directory found for the first launch is used for the later ones.
spawnBackendCachedPath(s, outcome) ==
    LET c == s.spawns + 1
        backendPath == IF s.spawns > 0 THEN s.dir[1] ELSE findBackendPath
    IN
    IF outcome = "throw"
    THEN updateBackendStatus([s EXCEPT !.spawned = TRUE, !.cwd = backendPath],
                             "error", ThrownMsg("spawn EINVAL"))
    ELSE [s EXCEPT !.spawned = TRUE,
                   !.cwd = backendPath,
                   !.dir[c] = backendPath,
                   !.spawns = c,
                   !.process = c,
                   !.proc[c] = IF outcome = "ok" THEN "alive" ELSE "errpending",
                   !.timer[c] = "pending"]

\* const pythonCmd = process.platform === 'win32' ? 'python' : 'python3'
pythonCmd(p) == IF p = "win32" THEN "python" ELSE "python3"

\* fs.existsSync(venvPath)
venvExists == venv # "none"

\* The choice of pythonExecutable, relative to backendPath.
pythonExecutable(p, exists) ==
    IF exists
    THEN IF p = "win32" THEN "venv\\Scripts\\python.exe" ELSE "venv/bin/python3"
    ELSE pythonCmd(p)

\* What spawn() does with an executable: one that does not exist gives a
\* handle whose 'error' event (ENOENT) follows.
spawnResult(exe, outcome) ==
    IF outcome = "ok" /\ venv = "dir" /\ exe \notin {"python", "python3"}
    THEN "enoent"
    ELSE outcome

\* The try block of attemptStartBackend: spawn of pythonExecutable with
\* cwd: backendPath, the handlers, the timer; and its catch block.  c names
\* the child spawn() returns.
spawnBackend(s, outcome) ==
    LET c == s.spawns + 1
        exe == pythonExecutable(platform, venvExists)
    IN
    IF outcome = "throw"
    THEN updateBackendStatus([s EXCEPT !.spawned = TRUE, !.cwd = findBackendPath,
                                       !.exe = exe],
                             "error", ThrownMsg("spawn EINVAL"))
    ELSE [s EXCEPT !.spawned = TRUE,
                   !.cwd = findBackendPath,
                   !.exe = exe,
                   !.dir[c] = findBackendPath,
                   !.spawns = c,
                   !.process = c,
                   !.proc[c] = IF spawnResult(exe, outcome) = "ok"
                               THEN "alive" ELSE "errpending",
                   !.timer[c] = "pending"]

\* Bug: the launch does not return when no directory was found.
attemptStartBackendAnyPath(s, outcome) ==
    IF AlreadyStarting(s) THEN s
    ELSE IF findBackendPath = "null"
    THEN spawnBackend(updateBackendStatus(
             updateBackendStatus(s, "error", NotFoundMsg), "starting", ""), outcome)
    ELSE spawnBackend(updateBackendStatus(s, "starting", ""), outcome)

\* Bug: the not-found error is sent without a message.
attemptStartBackendNoMessage(s, outcome) ==
    IF AlreadyStarting(s) THEN s
    ELSE IF findBackendPath = "null"
    THEN updateBackendStatus(s, "error", "")
    ELSE spawnBackend(updateBackendStatus(s, "starting", ""), outcome)

\* function attemptStartBackend()
attemptStartBackend(s, outcome) ==
    LET s0 == [s EXCEPT !.attempts = @ + 1] IN
    IF AlreadyStarting(s0) THEN s0
    ELSE IF findBackendPath = "null"
    THEN updateBackendStatus(s0, "error", NotFoundMsg)
    ELSE spawnBackend(updateBackendStatus(s0, "starting", ""), outcome)

\* Bug: every HTTP answer counts as a running backend.
ReachableAny(code) == code \in StatusCodes

\* res.statusCode === 200 || res.statusCode === 404
Reachable(code) == code = 200 \/ code = 404

\* ---------------------------------------------------------------- steps
\* What is recorded of the handler that ran last: its name, the child whose
\* event it handles (or the handle it read), for a checkBackendStatus
\* callback the status in which the request was issued, for a response the
\* status code; the status it found; whether it called spawn(), with which
\* executable and working directory; the statuses it assigned and the events it sent.
NoAct == [name |-> "init", child |-> 0, issuedIn |-> "none", code |-> 0,
          from |-> "none", attempts |-> 0, spawned |-> FALSE, cwd |-> "none",
          exe |-> "none",
          exit |-> "none",
          sets |-> <<>>, events |-> <<>>]

Act(name, child, issuedIn, code) ==
    [name |-> name, child |-> child, issuedIn |-> issuedIn, code |-> code]

\* The commands of the renderer that may lead to a launch.
Commands == {"start-backend", "check-backend"}

\* Writes the result r of a handler back to the variables.  No handler runs
\* after the application has quit.
Write(r, a) ==
    /\ ~quit
    /\ quit' = (a.name = "before-quit")
    /\ launchCredit' = launchCredit
            + (IF a.name \in Commands \cup {"activate"} THEN 1 ELSE 0)
            - (IF r.spawned THEN 1 ELSE 0)
    /\ spawnCount' = r.spawns
    /\ backendStatus' = r.status
    /\ backendProcess' = r.process
    /\ proc' = r.proc
    /\ killed' = r.killed
    /\ timer' = r.timer
    /\ launchDir' = r.dir
    /\ delivered' = IF r.events # <<>> THEN r.events[Len(r.events)].status
                    ELSE delivered
    /\ missed' = IF r.events # <<>> THEN FALSE
                 ELSE missed \/ (r.sets # <<>> /\ ~mainWindow)
    /\ UNCHANGED <<platform, venv>>
    /\ act' = [name |-> a.name, child |-> a.child, issuedIn |-> a.issuedIn,
               code |-> a.code, from |-> backendStatus,
               attempts |-> r.attempts, spawned |-> r.spawned,
               cwd |-> r.cwd, exe |-> r.exe, exit |-> r.exit, sets |-> r.sets,
               events |-> r.events]

\* A handler runs as one of the MaxSteps handlers a behaviour is followed
\* for.
Commit(r, a) ==
    /\ steps < MaxSteps
    /\ steps' = steps + 1
    /\ Write(r, a)

\* A callback of a launch (its timer, its re-probe) runs after the FairSteps
\* handlers: what is pending then still completes.
CommitLate(r, a) ==
    /\ steps >= FairSteps
    /\ steps' = steps
    /\ Write(r, a)

AfterCreateWindow ==
    /\ backendStatus = "checking"
    /\ backendProcess = null
    /\ mainWindow = TRUE
    /\ quit = FALSE
    /\ proc = [c \in Children |-> "none"]
    /\ killed = [c \in Children |-> "no"]
    /\ timer = [c \in Children |-> "none"]
    /\ launchDir = [c \in Children |-> "none"]
    \* createWindow() has called checkBackendStatus()
    /\ checkReqs = [k \in ReqKinds |-> IF k = <<"checking", "sent">> THEN 1 ELSE 0]
    \* the backend folder was extracted to ~/Downloads/backend
    /\ fs = {"downloads"}
    /\ cmdSinceStop = TRUE
    /\ launchCredit = 1
    /\ spawnCount = 0
    /\ delivered = "none"
    /\ missed = FALSE
    /\ steps = 0
    /\ act = NoAct

\* The application on macOS, the installation with its venv.
Init ==
    /\ AfterCreateWindow
    /\ platform = "darwin"
    /\ venv = "full"

\* function checkBackendStatus(): the request is sent.
checkBackendStatus ==
    checkReqs' = [checkReqs EXCEPT ![<<backendStatus, "sent">>] = @ + 1]

\* ipcMain.on('check-backend')
CheckBackend ==
    /\ mainWindow
    /\ checkBackendStatus
    /\ cmdSinceStop' = TRUE
    /\ Commit(Cur, Act("check-backend", 0, "none", 0))
    /\ UNCHANGED <<mainWindow, fs>>

\* Bug: the reachable branch falls through to the launch.
onCheckResponseFallThrough(s, code, outcome) ==
    IF Reachable(code)
    THEN attemptStartBackend(updateBackendStatus(s, "running", ""), outcome)
    ELSE attemptStartBackend(s, outcome)

\* The http.request callback of checkBackendStatus.
onCheckResponse(s, code, outcome) ==
    IF Reachable(code)
    THEN updateBackendStatus(s, "running", "")
    ELSE attemptStartBackend(s, outcome)

\* http.request callback of checkBackendStatus: a response arrived.
CheckResponse ==
    \E st \in Statuses, code \in StatusCodes, outcome \in SpawnOutcomes :
        /\ checkReqs[<<st, "sent">>] > 0
        /\ checkReqs' = [checkReqs EXCEPT ![<<st, "sent">>] = @ - 1]
        /\ Commit(onCheckResponse(Cur, code, outcome),
                  Act("check-response", 0, st, code))
        /\ UNCHANGED <<mainWindow, fs, cmdSinceStop>>

\* req.on('error') of checkBackendStatus; a destroyed request emits it too.
CheckError ==
    \E st \in Statuses, ph \in {"sent", "destroyed"}, outcome \in SpawnOutcomes :
        /\ checkReqs[<<st, ph>>] > 0
        /\ checkReqs' = [checkReqs EXCEPT ![<<st, ph>>] = @ - 1]
        /\ Commit(attemptStartBackend(Cur, outcome), Act("check-error", 0, st, 0))
        /\ UNCHANGED <<mainWindow, fs, cmdSinceStop>>

\* req.on('timeout') of checkBackendStatus: req.destroy(), then the launch.
CheckTimeout ==
    \E st \in Statuses, outcome \in SpawnOutcomes :
        /\ checkReqs[<<st, "sent">>] > 0
        /\ checkReqs' = [checkReqs EXCEPT ![<<st, "sent">>] = @ - 1,
                                          ![<<st, "destroyed">>] = @ + 1]
        /\ Commit(attemptStartBackend(Cur, outcome), Act("check-timeout", 0, st, 0))
        /\ UNCHANGED <<mainWindow, fs, cmdSinceStop>>

\* Bug: the start command launches whatever the status.
StartBackendAlways ==
    \E outcome \in SpawnOutcomes :
        /\ mainWindow
        /\ cmdSinceStop' = TRUE
        /\ Commit(attemptStartBackend(Cur, outcome),
                  Act("start-backend", 0, "none", 0))
        /\ UNCHANGED <<mainWindow, fs, checkReqs>>

\* ipcMain.on('start-backend')
StartBackend ==
    \E outcome \in SpawnOutcomes :
        /\ mainWindow
        /\ cmdSinceStop' = TRUE
        /\ Commit(IF backendStatus # "running"
                  THEN attemptStartBackend(Cur, outcome)
                  ELSE Cur,
                  Act("start-backend", 0, "none", 0))
        /\ UNCHANGED <<mainWindow, fs, checkReqs>>

\* Bug: the stop handler does not test the handle.
StopGuardAlways(s) == TRUE

\* if (backendProcess) of the stop-backend handler
StopGuard(s) == s.process # null

\* Bug: stop signals the child spawned last, whatever backendProcess holds.
stopBackendKillLast(s) ==
    IF s.spawns # 0 /\ s.proc[s.spawns] = "alive"
    THEN LET s1 == updateBackendStatus(s, "stopped", "")
         IN [s1 EXCEPT !.killed[s.spawns] = s.status, !.process = null]
    ELSE s

\* Bug: a stop command without a handle still reports 'stopped'.
stopBackendAlwaysStopped(s) ==
    IF StopGuard(s)
    THEN LET s1 == updateBackendStatus(s, "stopped", "")
         IN [s1 EXCEPT !.killed[s.process] = s.status, !.process = null]
    ELSE updateBackendStatus(s, "stopped", "")

\* The body of the stop-backend handler.
stopBackend(s) ==
    IF StopGuard(s)
    THEN LET s1 == updateBackendStatus(s, "stopped", "")
         IN [s1 EXCEPT !.killed[s.process] = s.status, !.process = null]
    ELSE s

\* ipcMain.on('stop-backend')
StopBackend ==
    /\ mainWindow
    /\ cmdSinceStop' = IF StopGuard(Cur) THEN FALSE ELSE cmdSinceStop
    /\ Commit(stopBackend(Cur), Act("stop-backend", backendProcess, "none", 0))
    /\ UNCHANGED <<mainWindow, fs, checkReqs>>

\* backendProcess.stdout.on('data') of child c, for a chunk that includes
\* 'Running on' (any other chunk is only logged).
StdoutData ==
    \E c \in Children :
        /\ proc[c] = "alive"
        /\ Commit(updateBackendStatus(Cur, "running", ""),
                  Act("stdout-data", c, "none", 0))
        /\ UNCHANGED <<mainWindow, fs, checkReqs, cmdSinceStop>>

\* Bug: the close handler reports an error also after a stop.
onCloseAlwaysError(s, c, code) ==
    updateBackendStatus([s EXCEPT !.proc[c] = "none", !.process = null,
                                  !.exit = code],
                        "error", ExitedMsg(code))

\* Bug: the close handler keeps the handle of the child that ended.
onCloseKeepHandle(s, c, code) ==
    LET s1 == [s EXCEPT !.proc[c] = "none", !.exit = code]
    IN IF s1.status # "stopped"
       THEN updateBackendStatus(s1, "error", ExitedMsg(code))
       ELSE s1

\* The body of the 'close' handler registered on child c.
onClose(s, c, code) ==
    LET s1 == [s EXCEPT !.proc[c] = "none", !.process = null, !.exit = code]
    IN IF s1.status # "stopped"
       THEN updateBackendStatus(s1, "error", ExitedMsg(code))
       ELSE s1

\* backendProcess.on('close') of child c: the process has ended (by itself,
\* by a signal, or because it never started) and its streams are closed.
ChildClose ==
    \E c \in Children, code \in ExitCodes :
        /\ proc[c] \in {"alive", "failed"}
        /\ (code = "null") => (killed[c] # "no")
        /\ Commit(onClose(Cur, c, code), Act("close", c, "none", 0))
        /\ UNCHANGED <<mainWindow, fs, checkReqs, cmdSinceStop>>

\* backendProcess.on('error') of child c: the spawn failed.
ChildError ==
    \E c \in Children :
        /\ proc[c] = "errpending"
        /\ Commit(updateBackendStatus([Cur EXCEPT !.proc[c] = "failed"], "error",
                                      FailedMsg("spawn python3 ENOENT")),
                  Act("error", c, "none", 0))
        /\ UNCHANGED <<mainWindow, fs, checkReqs, cmdSinceStop>>

\* The setTimeout callback of launch c: verifyBackendRunning() sends its
\* request.
TimerFire ==
    \E c \in Children :
        /\ timer[c] = "pending"
        /\ Commit([Cur EXCEPT !.timer[c] = "sent"], Act("timer", c, "none", 0))
        /\ UNCHANGED <<mainWindow, fs, checkReqs, cmdSinceStop>>

\* Bug: a failed re-probe also kills the child and drops the handle.
verifyResponseKill(s, code) ==
    IF Reachable(code)
    THEN updateBackendStatus(s, "running", "")
    ELSE LET s1 == updateBackendStatus(s, "error", BadStatusMsg)
         IN IF s.process # null
            THEN [s1 EXCEPT !.killed[s.process] = s.status, !.process = null]
            ELSE s1

\* Bug: an answer other than 200 or 404 to the re-probe is ignored.
verifyResponseIgnoreBad(s, code) ==
    IF Reachable(code)
    THEN updateBackendStatus(s, "running", "")
    ELSE s

\* http.request callback of verifyBackendRunning.
verifyResponse(s, code) ==
    IF Reachable(code)
    THEN updateBackendStatus(s, "running", "")
    ELSE updateBackendStatus(s, "error", BadStatusMsg)

VerifyResponse ==
    \E c \in Children, code \in StatusCodes :
        /\ timer[c] = "sent"
        /\ Commit(verifyResponse([Cur EXCEPT !.timer[c] = "none"], code),
                  Act("verify-response", c, "none", code))
        /\ UNCHANGED <<mainWindow, fs, checkReqs, cmdSinceStop>>

\* req.on('error') of verifyBackendRunning; a destroyed request emits it too.
VerifyError ==
    \E c \in Children :
        /\ timer[c] \in {"sent", "destroyed"}
        /\ Commit(updateBackendStatus([Cur EXCEPT !.timer[c] = "none"], "error",
                                      UnavailableMsg),
                  Act("verify-error", c, "none", 0))
        /\ UNCHANGED <<mainWindow, fs, checkReqs, cmdSinceStop>>

\* req.on('timeout') of verifyBackendRunning: req.destroy(), then the status.
VerifyTimeout ==
    \E c \in Children :
        /\ timer[c] = "sent"
        /\ Commit(updateBackendStatus([Cur EXCEPT !.timer[c] = "destroyed"], "error",
                                      TimeoutMsg),
                  Act("verify-timeout", c, "none", 0))
        /\ UNCHANGED <<mainWindow, fs, checkReqs, cmdSinceStop>>

\* The callbacks of the launches still pending after the FairSteps handlers.
TimerFireLate ==
    \E c \in Children :
        /\ timer[c] = "pending"
        /\ CommitLate([Cur EXCEPT !.timer[c] = "sent"], Act("timer", c, "none", 0))
        /\ UNCHANGED <<mainWindow, fs, checkReqs, cmdSinceStop>>

VerifyResponseLate ==
    \E c \in Children, code \in StatusCodes :
        /\ timer[c] = "sent"
        /\ CommitLate(verifyResponse([Cur EXCEPT !.timer[c] = "none"], code),
                      Act("verify-response", c, "none", code))
        /\ UNCHANGED <<mainWindow, fs, checkReqs, cmdSinceStop>>

VerifyErrorLate ==
    \E c \in Children :
        /\ timer[c] \in {"sent", "destroyed"}
        /\ CommitLate(updateBackendStatus([Cur EXCEPT !.timer[c] = "none"], "error",
                                          UnavailableMsg),
                      Act("verify-error", c, "none", 0))
        /\ UNCHANGED <<mainWindow, fs, checkReqs, cmdSinceStop>>

VerifyTimeoutLate ==
    \E c \in Children :
        /\ timer[c] = "sent"
        /\ CommitLate(updateBackendStatus([Cur EXCEPT !.timer[c] = "destroyed"],
                                          "error", TimeoutMsg),
                      Act("verify-timeout", c, "none", 0))
        /\ UNCHANGED <<mainWindow, fs, checkReqs, cmdSinceStop>>

\* mainWindow.on('closed'): the window was closed (the application goes on
\* without a window, as on macOS, until it quits).
WindowClosed ==
    /\ mainWindow
    /\ mainWindow' = FALSE
    /\ Commit(Cur, Act("window-closed", 0, "none", 0))
    /\ UNCHANGED <<fs, checkReqs, cmdSinceStop>>

\* app.on('activate') with no window open: createWindow(), which ends with
\* checkBackendStatus().
Activate ==
    /\ ~mainWindow
    /\ mainWindow' = TRUE
    /\ checkBackendStatus
    /\ Commit(Cur, Act("activate", 0, "none", 0))
    /\ UNCHANGED <<fs, cmdSinceStop>>

\* The body of the before-quit handler.
beforeQuit(s) ==
    IF s.process # null
    THEN [s EXCEPT !.killed[s.process] = s.status, !.process = null]
    ELSE s

\* app.on('before-quit'): the application quits (quit command, or the last
\* window closed on a platform other than darwin).
BeforeQuit ==
    /\ Commit(beforeQuit(Cur), Act("before-quit", backendProcess, "none", 0))
    /\ UNCHANGED <<mainWindow, fs, checkReqs, cmdSinceStop>>

\* The backend folder is installed in, or removed from, a directory.
FsChange ==
    \E d \in Installs :
        /\ fs' = IF d \in fs THEN fs \ {d} ELSE fs \cup {d}
        /\ Commit(Cur, Act("fs", 0, "none", 0))
        /\ UNCHANGED <<mainWindow, checkReqs, cmdSinceStop>>

Next ==
    \/ CheckBackend
    \/ CheckResponse
    \/ CheckError
    \/ CheckTimeout
    \/ StartBackend
    \/ StopBackend
    \/ StdoutData
    \/ ChildClose
    \/ ChildError
    \/ TimerFire
    \/ VerifyResponse
    \/ VerifyError
    \/ VerifyTimeout
    \/ WindowClosed
    \/ Activate
    \/ BeforeQuit
    \/ FsChange

Spec == Init /\ [][Next]_vars

\* The behaviours of FairSteps handlers in which every timer fires and every
\* re-probe resolves, also those pending when the FairSteps handlers have
\* run.
TimerFires == TimerFire \/ TimerFireLate

ReprobeResolves ==
    \/ VerifyResponse \/ VerifyError \/ VerifyTimeout
    \/ VerifyResponseLate \/ VerifyErrorLate \/ VerifyTimeoutLate

FairNext ==
    \/ (steps < FairSteps /\ Next)
    \/ TimerFireLate
    \/ VerifyResponseLate
    \/ VerifyErrorLate
    \/ VerifyTimeoutLate

FairSpec ==
    /\ Init /\ [][FairNext]_vars
    /\ WF_vars(TimerFires)
    /\ WF_vars(ReprobeResolves)

\* The launches on every platform and with every state of the venv folder.
LaunchInit ==
    /\ AfterCreateWindow
    /\ platform \in Platforms
    /\ venv \in VenvStates

LaunchNext == steps < LaunchSteps /\ Next

LaunchSpec == LaunchInit /\ [][LaunchNext]_vars

\* ------------------------------------------------------------ properties
\* Children whose process runs.
Alive == {c \in Children : proc[c] = "alive"}

\* Running children that were sent no termination signal.
Unsignalled == {c \in Alive : killed[c] = "no"}

\* Every running, unsignalled child is the one backendProcess refers to.
NoOrphan == \A c \in Unsignalled : c = backendProcess

\* The callbacks of a checkBackendStatus request.
CheckCallbacks == {"check-response", "check-error", "check-timeout"}

\* Handler a is a callback of a check request that takes the probe as failed.
FailedCheck(a) ==
    \/ a.name \in {"check-error", "check-timeout"}
    \/ (a.name = "check-response" /\ a.code \notin {200, 404})

\* The events updateBackendStatus(status, message) sends.
Sent(status, message) ==
    IF mainWindow THEN <<[status |-> status, message |-> message]>> ELSE <<>>

\* The callbacks of a verifyBackendRunning request that take the re-probe
\* as failed.
FailedVerify(a) ==
    \/ a.name \in {"verify-error", "verify-timeout"}
    \/ (a.name = "verify-response" /\ a.code \notin {200, 404})

\* The messages verifyBackendRunning sends with status 'error'.
NotRespondingMsgs == {BadStatusMsg, UnavailableMsg, TimeoutMsg}

\* The handlers attemptStartBackend registers for a launch: the events of
\* the child, the timer, the callbacks of the re-probe.
LaunchCallbacks ==
    {"stdout-data", "close", "error", "timer",
     "verify-response", "verify-error", "verify-timeout"}

\* Launches whose delayed re-probe is pending: the 3 s timer is set, or the
\* request of verifyBackendRunning is in flight or owes its 'error' event.
PendingReprobes == {c \in Children : timer[c] # "none"}

\* The search order the setup guide gives: ~/Downloads/backend, ~/backend,
\* the app's resource directory, the development directory.
documentedPaths == <<"downloads", "home", "resources", "dev">>

\* The first directory of documentedPaths, from index i, that has app.py.
RECURSIVE firstDocumented(_, _)
firstDocumented(i, has) ==
    IF i > Len(documentedPaths) THEN "null"
    ELSE IF documentedPaths[i] \in has THEN documentedPaths[i]
    ELSE firstDocumented(i + 1, has)

\* The statuses carried by a sequence of backend-status events.
StatusesOf(events) == [i \in 1..Len(events) |-> events[i].status]

\* Handler a called spawn() and spawn() threw: the catch block of
\* attemptStartBackend ran after 'starting' was set.
SpawnThrew(a) == a.spawned /\ a.sets = <<"starting", "error">>

\* No checkBackendStatus request is waiting for its answer.
NoCheckInFlight == \A st \in Statuses : checkReqs[<<st, "sent">>] = 0

\* The error texts of a failed spawn() in this model.
SpawnErrors == {"spawn python3 ENOENT", "spawn EINVAL"}

\* The messages sent with status 'error', by category.
ErrorCategories ==
    [notFound |-> {NotFoundMsg},
     spawnFailure |-> {FailedMsg(e) : e \in SpawnErrors}
                        \cup {ThrownMsg(e) : e \in SpawnErrors},
     notResponding |-> NotRespondingMsgs,
     exited |-> {ExitedMsg(code) : code \in ExitCodes}]

\* The categories message m belongs to.
CategoriesOf(m) == {k \in DOMAIN ErrorCategories : m \in ErrorCategories[k]}

\* The interpreter of the installation's venv on platform p.
venvPython(p) ==
    IF p = "win32" THEN "venv\\Scripts\\python.exe" ELSE "venv/bin/python3"

\* C1: at most one spawned child is alive at a time (stated here for the
\* children that were sent no termination signal, which the claim implies).
C1_SingleInstance == Cardinality(Unsignalled) <= 1

\* C2: no callback of a check request that was issued while the status was
\* 'starting' calls spawn() (stated here for the callbacks that run while
\* no stop command has been obeyed since the last start or check command,
\* so that only probes, timers and child events come between).
C2_NoSpawnFromCheckWhileStarting ==
    ~(/\ act.name \in CheckCallbacks /\ act.issuedIn = "starting"
      /\ act.spawned /\ cmdSinceStop)

\* C3 as stated: after a 200 or 404 answer to a check request issued in
\* status 'checking' the status is 'running', backendProcess is null and
\* spawn() was not called.
C3_Original ==
    (act.name = "check-response" /\ act.issuedIn = "checking"
        /\ act.code \in {200, 404})
    => (backendStatus = "running" /\ backendProcess = null /\ ~act.spawned)

\* C3 as amended: a 200 or 404 answer to a check request issued in status
\* 'checking' sets the status to 'running', does not call spawn() and leaves
\* backendProcess as it was, which is null when the status is still
\* 'checking' when the answer arrives.
C3_ReachableInChecking ==
    [][(act'.name = "check-response" /\ act'.issuedIn = "checking"
            /\ act'.code \in {200, 404})
       => (/\ backendStatus' = "running"
           /\ ~act'.spawned
           /\ backendProcess' = backendProcess
           /\ backendStatus = "checking" => backendProcess' = null)]_vars

C3_Witness ==
    /\ act.name = "check-response" /\ act.issuedIn = "checking"
    /\ act.code \in {200, 404} /\ act.from = "checking"
    /\ backendStatus = "running" /\ backendProcess = null

\* C4 as stated: every HTTP answer to a probe sets the status to 'running',
\* and the answer to a check request does not call spawn().
C4_Original ==
    (act.name \in {"check-response", "verify-response"})
    => (backendStatus = "running" /\ ~act.spawned)

\* C4 as amended: an answer with status code 200 or 404 sets the status to
\* 'running' (checkBackendStatus without a launch); an answer with any
\* other code is handled as a failed probe: checkBackendStatus calls
\* attemptStartBackend (no change in 'starting', 'error' when no directory
\* has app.py, a spawn otherwise) and verifyBackendRunning sets 'error'.
C4_Only200And404Reachable ==
    [][/\ (act'.name \in {"check-response", "verify-response"}
            /\ act'.code \in {200, 404})
          => (backendStatus' = "running" /\ ~act'.spawned
              /\ act'.events = Sent("running", ""))
       /\ (act'.name = "check-response" /\ act'.code \notin {200, 404})
          => (/\ backendStatus' # "running"
              /\ backendStatus = "starting"
                    => (backendStatus' = "starting" /\ ~act'.spawned)
              /\ (backendStatus # "starting" /\ findBackendPath = "null")
                    => (backendStatus' = "error" /\ ~act'.spawned)
              /\ (backendStatus # "starting" /\ findBackendPath # "null")
                    => act'.spawned)
       /\ (act'.name = "verify-response" /\ act'.code \notin {200, 404})
          => (backendStatus' = "error" /\ ~act'.spawned
              /\ act'.events = Sent("error", BadStatusMsg))]_vars

C4_Witness ==
    /\ act.name = "check-response" /\ act.code = 500 /\ act.spawned
    /\ backendStatus = "starting"

\* C5 as stated: when a check probe fails and no candidate directory
\* contains app.py, the status becomes 'error' with the not-found message
\* and spawn() is not called.
C5_Original ==
    [][(FailedCheck(act') /\ findBackendPath = "null")
       => (/\ backendStatus' = "error"
           /\ act'.events = Sent("error", NotFoundMsg)
           /\ ~act'.spawned)]_vars

\* C5 as amended: when a check probe fails, no candidate directory contains
\* app.py and the status is not 'starting', the status becomes 'error' with
\* the not-found message and spawn() is not called; when the status is
\* 'starting' the failed probe changes nothing.
C5_NotFound ==
    [][(FailedCheck(act') /\ findBackendPath = "null")
       => IF backendStatus # "starting"
          THEN /\ backendStatus' = "error"
               /\ act'.events = Sent("error", NotFoundMsg)
               /\ ~act'.spawned
          ELSE /\ backendStatus' = "starting"
               /\ backendProcess' = backendProcess
               /\ act'.events = <<>>
               /\ ~act'.spawned]_vars

C5_Witness ==
    /\ act.name \in {"check-error", "check-timeout"}
    /\ act.from # "starting"
    /\ findBackendPath = "null"
    /\ backendStatus = "error"
    /\ act.events = Sent("error", NotFoundMsg)
    /\ spawnCount = 0

\* C6: a stop command received in status 'running' with an owned child
\* calls kill() on that child, sets backendProcess to null and the status
\* to 'stopped'; the close event of a child stopped this way, delivered
\* while the status is 'stopped', leaves it 'stopped'.
C6_StopWhileRunningOwned ==
    [][/\ (act'.name = "stop-backend" /\ backendStatus = "running"
            /\ backendProcess # null)
          => (/\ killed'[backendProcess] # "no"
              /\ killed[backendProcess] = "no" => killed'[backendProcess] = "running"
              /\ backendProcess' = null
              /\ backendStatus' = "stopped")
       /\ (act'.name = "close" /\ killed[act'.child] = "running"
            /\ backendStatus = "stopped")
          => (backendStatus' = "stopped" /\ act'.events = <<>>)]_vars

C6_Witness ==
    /\ act.name = "close" /\ act.from = "stopped"
    /\ act.child # null /\ killed[act.child] = "running"
    /\ proc[act.child] = "none"
    /\ backendStatus = "stopped" /\ backendProcess = null

\* C7: the close event of a child that a stop command stopped in status
\* 'running' never leaves a running, unsignalled child that backendProcess
\* does not refer to, also when the next child was spawned before it.
C7_NoOrphanAfterStaleClose ==
    [][(act'.name = "close" /\ killed[act'.child] = "running" /\ NoOrphan)
       => NoOrphan']_vars

\* C8: a stop command calls kill() on no child but the one backendProcess
\* refers to, and on none when backendProcess is null.
C8_StopSignalsOnlyOwnedChild ==
    [][(act'.name = "stop-backend")
       => (/\ \A c \in Children : killed'[c] # killed[c] => c = backendProcess
           /\ backendProcess = null => killed' = killed)]_vars

C8_Witness ==
    /\ act.name = "stop-backend" /\ act.from = "running" /\ act.child = null
    /\ backendStatus = "running" /\ backendProcess = null

\* C9 as stated: the status becomes 'stopped' only by a stop command
\* received in status 'running' with an owned child.
C9_Original ==
    [][(backendStatus' = "stopped" /\ backendStatus # "stopped")
       => (act'.name = "stop-backend" /\ backendStatus = "running"
           /\ backendProcess # null)]_vars

\* C9 as amended: the status becomes 'stopped' only by a stop command
\* received while backendProcess is non-null, whatever the status then;
\* a stop command received while backendProcess is null never sets
\* 'stopped'.
C9_StoppedOnlyByStopWithHandle ==
    [][/\ (backendStatus' = "stopped" /\ backendStatus # "stopped")
          => (act'.name = "stop-backend" /\ backendProcess # null)
       /\ (act'.name = "stop-backend" /\ backendProcess = null)
          => (backendStatus' = backendStatus /\ act'.events = <<>>)]_vars

C9_Witness ==
    /\ act.name = "stop-backend" /\ act.from = "starting" /\ act.child # null
    /\ backendStatus = "stopped"

\* C10: once a stop command has set 'stopped' and until the next start or
\* check command, no handler changes the status or calls spawn().
C10_NoRelaunchAfterStop ==
    [][(/\ backendStatus = "stopped" /\ ~cmdSinceStop
        /\ act'.name \notin {"start-backend", "check-backend"})
       => (backendStatus' = "stopped" /\ ~act'.spawned)]_vars

\* C11: after a stop command received in status 'starting' has called kill()
\* on the child of the launch in progress, neither that child's stdout
\* readiness line nor the answer to that launch's delayed re-probe sets the
\* status to 'running'.
C11_StoppedLaunchNeverRunning ==
    [][(/\ act'.name \in {"stdout-data", "verify-response"}
        /\ killed[act'.child] = "starting")
       => backendStatus' # "running"]_vars

\* C12: a failed delayed re-probe (an answer other than 200 or 404, a
\* request error, a timeout) sets the status to 'error' with one of the
\* 'started but not responding' messages, calls kill() on no child and
\* leaves backendProcess and the child processes as they were.
C12_FailedReprobeKeepsChild ==
    [][FailedVerify(act')
       => (/\ backendStatus' = "error"
           /\ \E m \in NotRespondingMsgs : act'.events = Sent("error", m)
           /\ killed' = killed
           /\ backendProcess' = backendProcess
           /\ proc' = proc
           /\ ~act'.spawned)]_vars

C12_Witness ==
    /\ FailedVerify(act) /\ act.from = "starting"
    /\ backendStatus = "error"
    /\ backendProcess = act.child /\ backendProcess # null
    /\ proc[act.child] = "alive" /\ killed[act.child] = "no"

\* C13: with the first candidate directory lacking app.py and a later one
\* containing it, (1) a failed check probe found in status 'checking' sets
\* 'starting' and calls spawn() once, with a directory that contains app.py
\* as working directory; (2) when that spawn succeeded, the 3 s timer of the
\* launch leaves the status alone and calls no spawn(); (3) a 200 or 404
\* answer to the delayed re-probe, found in status 'starting', sets
\* 'running' and calls no spawn().
C13_LaunchFromLaterCandidate ==
    [][/\ (/\ FailedCheck(act') /\ backendStatus = "checking"
           /\ possiblePaths[1] \notin fs /\ fs # {})
          => (/\ act'.spawned
              /\ act'.cwd \in fs
              /\ spawnCount' <= spawnCount + 1
              /\ spawnCount' = spawnCount + 1
                    => (backendStatus' = "starting"
                        /\ backendProcess' = spawnCount'
                        /\ timer'[spawnCount'] = "pending"))
       /\ (act'.name = "timer")
          => (backendStatus' = backendStatus /\ ~act'.spawned
              /\ spawnCount' = spawnCount)
       /\ (/\ act'.name = "verify-response" /\ act'.code \in {200, 404}
           /\ backendStatus = "starting")
          => (/\ backendStatus' = "running"
              /\ act'.events = Sent("running", "")
              /\ ~act'.spawned
              /\ spawnCount' = spawnCount)]_vars

\* The scenario after its three steps: the failed check, the timer, the
\* answered re-probe.
C13_Witness ==
    /\ steps = 3
    /\ act.name = "verify-response" /\ act.code \in {200, 404}
    /\ act.child = 1 /\ act.from = "starting"
    /\ checkReqs[<<"checking", "sent">>] = 0
    /\ possiblePaths[1] \notin fs /\ "downloads" \in fs
    /\ backendStatus = "running"
    /\ spawnCount = 1 /\ backendProcess = 1 /\ proc[1] = "alive"

\* C14: a failed probe of a check command that was issued and is answered
\* in status 'running' sets the status to 'error', does not set 'starting'
\* and does not call spawn().
C14_FailedCheckWhileRunning ==
    [][(FailedCheck(act') /\ act'.issuedIn = "running"
            /\ backendStatus = "running")
       => (backendStatus' = "error" /\ ~act'.spawned)]_vars

\* C15: while the status is 'error', no handler left over from a launch
\* (its 3 s timer, the callbacks of its re-probe, the stdout, close and
\* error events of its child) moves the status out of 'error'.
C15_ErrorUntilCommand ==
    [][(backendStatus = "error" /\ act'.name \in LaunchCallbacks)
       => backendStatus' = "error"]_vars

\* C16: a start or check command received in status 'error' sets the status
\* to 'checking' and sends a 'checking' event.
C16_CommandInErrorReentersChecking ==
    [][(backendStatus = "error"
            /\ act'.name \in {"start-backend", "check-backend"})
       => (backendStatus' = "checking"
           /\ act'.events # <<>>
           /\ act'.events[1].status = "checking")]_vars

\* C17: a start command received in status 'starting', and every callback
\* of a check request that was issued in status 'starting' and is answered
\* while the status is still 'starting', changes neither backendStatus nor
\* backendProcess, sends no event and calls no spawn().
C17_NoOpWhileStarting ==
    [][(/\ backendStatus = "starting"
        /\ \/ act'.name \in {"start-backend", "check-backend"}
           \/ (act'.name \in CheckCallbacks /\ act'.issuedIn = "starting"))
       => (/\ backendStatus' = "starting"
           /\ backendProcess' = backendProcess
           /\ act'.events = <<>>
           /\ ~act'.spawned)]_vars

\* C18: at most one launch has its delayed re-probe pending.
C18_SingleFlight == Cardinality(PendingReprobes) <= 1

\* C19: the status is 'running' with backendProcess null only when a
\* successful probe produced it: a handler that leads to 'running' with no
\* handle, from a state that was not so, is a 200 or 404 answer to a check
\* request or to a delayed re-probe.
C19_RunningOwnedOrProbed ==
    [][(/\ backendStatus' = "running" /\ backendProcess' = null
        /\ ~(backendStatus = "running" /\ backendProcess = null))
       => (act'.name \in {"check-response", "verify-response"}
           /\ act'.code \in {200, 404})]_vars

\* C20: every launch runs the child in the first directory, in the order
\* ~/Downloads/backend, ~/backend, resources, development, that contains
\* app.py.
C20_DocumentedSearchOrder ==
    [][act'.spawned => act'.cwd = firstDocumented(1, fs)]_vars

\* C21 as stated: every handler sends exactly one event for each value it
\* assigns to backendStatus, in the order of the assignments.
C21_Original ==
    [][StatusesOf(act'.events) = act'.sets]_vars

\* C21 as amended: backendStatus changes only by the assignments of
\* updateBackendStatus; while a window exists every assignment sends exactly
\* one event carrying the assigned status, in the order of the assignments;
\* while no window exists the assignments send no event.
C21_OneEventPerChangeWithWindow ==
    [][/\ backendStatus' # backendStatus => act'.sets # <<>>
       /\ act'.sets # <<>> => backendStatus' = act'.sets[Len(act'.sets)]
       /\ mainWindow => StatusesOf(act'.events) = act'.sets
       /\ ~mainWindow => act'.events = <<>>]_vars

C21_Witness ==
    /\ mainWindow
    /\ act.from = "checking" /\ act.sets = <<"starting", "error">>
    /\ StatusesOf(act.events) = <<"starting", "error">>
    /\ backendStatus = "error"

\* C22: no handler sends a 'running' event when the status it finds is
\* already 'running'.
C22_NoRunningToRunningEvent ==
    [][(backendStatus = "running" /\ act'.events # <<>>)
       => act'.events[1].status # "running"]_vars

\* C23: when the before-quit handler has run, every child that is still
\* alive has been sent a termination signal.
C23_QuitSignalsEveryChild ==
    [][(act'.name = "before-quit") => Unsignalled' = {}]_vars

C25_NoRelaunchAfterSpawnFailure ==
    [][(SpawnThrew(act) /\ backendStatus = "error" /\ NoCheckInFlight)
       => (act'.spawned => act'.name = "start-backend")]_vars

\* C26: spawn() has been called at most as often as checks and start
\* commands were issued, the launch check included.
C26_NoAutoRetry == launchCredit >= 0

\* C27: when every timer fires and every re-probe resolves, status
\* 'starting' is always followed by 'running', 'error' or 'stopped', unless
\* the application quits first.
C27_StartingNotPermanent ==
    [](backendStatus = "starting"
       => <>(backendStatus \in {"running", "error", "stopped"} \/ quit))

C27_Witness ==
    /\ steps = FairSteps /\ ~quit
    /\ act.name = "verify-response" /\ act.from = "starting"
    /\ act.code \notin {200, 404}
    /\ backendStatus = "error"

\* C28: every event sent carries one of the five statuses, and every event
\* with status 'error' carries a non-empty message that belongs to exactly
\* one category (not found, spawn failure, started but not responding,
\* process exited).
C28_EventPayload ==
    \A i \in 1..Len(act.events) :
        /\ act.events[i].status
              \in {"checking", "starting", "running", "stopped", "error"}
        /\ act.events[i].status = "error"
              => (/\ act.events[i].message # ""
                  /\ Cardinality(CategoriesOf(act.events[i].message)) = 1)

C28_Witness ==
    /\ act.name = "close" /\ Len(act.events) = 1
    /\ act.events[1].status = "error"
    /\ CategoriesOf(act.events[1].message) = {"exited"}

\* C29: a readiness line of the owned child found in status 'starting' sets
\* 'running' at once; and when the next handler is a callback of that
\* launch's delayed re-probe, it leaves the status 'running'.
C29_ReadinessLineShortCircuits ==
    [][/\ (act'.name = "stdout-data" /\ backendStatus = "starting")
          => backendStatus' = "running"
       /\ (/\ act.name = "stdout-data" /\ act.from = "starting"
           /\ backendStatus = "running"
           /\ act'.name \in {"verify-response", "verify-error", "verify-timeout"}
           /\ act'.child = act.child)
          => backendStatus' = "running"]_vars

\* C30: every call of spawn() uses as working directory the first candidate
\* directory that contains app.py when the launch is made, whatever
\* directories earlier launches used.
C30_PathResolvedPerLaunch ==
    [][act'.spawned
       => (/\ act'.cwd = firstWithApp(1, fs)
           /\ act'.cwd \in fs
           /\ spawnCount' = spawnCount + 1 => launchDir'[spawnCount'] = act'.cwd
           /\ \A c \in 1..spawnCount : launchDir'[c] = launchDir[c])]_vars

C30_Witness ==
    /\ act.spawned /\ spawnCount = 2
    /\ launchDir[1] = "downloads" /\ launchDir[2] = "resources"
    /\ act.cwd = "resources" /\ "resources" \in fs

\* C31: every call of spawn() runs the venv's interpreter when the
\* installation has it, and the system interpreter otherwise, also when the
\* venv folder exists without the interpreter.
C31_InterpreterChoice ==
    [][act'.spawned
       => act'.exe = IF venv = "full" THEN venvPython(platform)
                     ELSE pythonCmd(platform)]_vars

\* C32: the close event of a child that backendProcess does not refer to,
\* while backendProcess refers to a child spawned later, leaves
\* backendProcess and backendStatus as they are.
C32_StaleCloseLeavesLaterLaunch ==
    [][(/\ act'.name = "close" /\ backendProcess # null
        /\ act'.child < backendProcess)
       => (backendProcess' = backendProcess
           /\ backendStatus' = backendStatus)]_vars

\* C33: a start command received in status 'running' changes neither
\* backendStatus nor backendProcess, sends no event, calls no spawn() and
\* leaves the children and the timers as they are.
C33_StartWhileRunningNoOp ==
    [][(act'.name = "start-backend" /\ backendStatus = "running")
       => (/\ backendStatus' = "running"
           /\ backendProcess' = backendProcess
           /\ act'.events = <<>> /\ act'.sets = <<>>
           /\ ~act'.spawned /\ spawnCount' = spawnCount
           /\ proc' = proc /\ killed' = killed /\ timer' = timer)]_vars

C33_Witness ==
    /\ act.name = "start-backend" /\ act.from = "running"
    /\ backendStatus = "running" /\ backendProcess # null
    /\ proc[backendProcess] = "alive" /\ spawnCount = 1

\* C34: a stop command received while backendProcess is null leaves
\* backendStatus as it is, whatever it is, sends no event and calls kill()
\* on no child.
C34_StopWithoutHandleNoOp ==
    [][(act'.name = "stop-backend" /\ backendProcess = null)
       => (/\ backendStatus' = backendStatus
           /\ backendProcess' = null
           /\ act'.events = <<>> /\ act'.sets = <<>>
           /\ killed' = killed /\ proc' = proc /\ timer' = timer)]_vars

C34_Witness ==
    /\ act.name = "stop-backend" /\ act.child = null
    /\ act.from = "error" /\ backendStatus = "error"
    /\ backendProcess = null /\ act.events = <<>>

\* C35: a readiness line delivered while the status is 'stopped' or 'error'
\* does not set the status to 'running'.
C35_ReadinessLineOnlyWhileStarting ==
    [][(act'.name = "stdout-data" /\ backendStatus \in {"stopped", "error"})
       => backendStatus' # "running"]_vars

\* C36: each probe produces exactly one supervisor reaction, also when the
\* request times out and is destroyed by its timeout handler: the 'error'
\* event of a destroyed request, whose timeout handler has already reacted,
\* neither calls attemptStartBackend nor assigns the status again.
C36_OneReactionPerProbe ==
    [][/\ (act'.name = "check-error"
           /\ checkReqs[<<act'.issuedIn, "sent">>] = 0) => act'.attempts = 0
       /\ (act'.name = "verify-error"
           /\ timer[act'.child] = "destroyed") => act'.sets = <<>>]_vars

\* C37: backendStatus is assigned also while no window exists, and then no
\* event is sent: the status differs from the status of the last event sent
\* to the renderer only when it was assigned while no window existed after
\* that event.
C37_DiffersOnlyByWindowlessChanges ==
    (delivered # "none" /\ backendStatus # delivered) => missed

C37_Witness ==
    /\ ~mainWindow
    /\ act.name = "stdout-data" /\ act.sets = <<"running">> /\ act.events = <<>>
    /\ backendStatus = "running"
    /\ delivered = "starting"
    /\ missed

====
